---- MODULE Spec2Model ----
(***************************************************************************)
(* The registration and static-validation core of the di-rs registry       *)
(* (src/src/registry/mod.rs): the three candidate maps, the validator      *)
(* pipeline, the direct insertions, the One / OneOf builders and compile.  *)
(***************************************************************************)
EXTENDS Integers, Sequences, FiniteSets, TLC

\* ------------------------------------------------------------------------
\* Bounds and input sets
\* ------------------------------------------------------------------------

\* Registrations (calls of finalize) explored by Spec, with every operation.
MaxRegs == 2
\* Registrations explored by SpecInsert, with the direct insertions alone.
MaxInserts == 3
\* Registrations explored by the specifications that also run compile.
MaxCompileRegs == 2
\* Registrations explored by the specification that also pushes validators.
MaxPipelineRegs == 1
\* Caller-supplied validators pushed after the three defaults.
MaxPush == 2

\* Option<&str>::None, and the absence of a builder / of a returned value.
None == "None"
NoBuilder == [kind |-> "NoBuilder"]
NoResult == [tag |-> "NoResult"]
NoEnded == [how |-> "NoEnded"]
NoBefore == [kind |-> "NoBefore"]

\* Identifiers used as definition ids, group ids and argument references.
\* "a" is in both id sets: the two maps are keyed independently.
DefIds == {"a", "b"}
GroupIds == {"g", "a"}
\* The argument lists callers pass (closed under prefixes, so that a builder
\* can accumulate each of them one argument at a time).  The reference "a"
\* may name a definition, a group, both or neither.
ArgLists == {<<>>, <<"a">>}
\* BTreeMap iterates its String keys in ascending order.
KeyOrder == <<"a", "b", "g">>

\* Factories handed to the registry, and the element types of has_many::<T>.
Factories == {"F1", "F3"}
Types == {"T1", "T3"}

\* MetaFactory capability: the number of arguments the factory requires.
RequiredArgs(value) == IF value = "F1" THEN 1 ELSE 3
\* MetaFactory::new_aggregate: the aggregate of the factory's produced type.
new_aggregate(value) == IF value = "F1" THEN "T1" ELSE "T3"
\* Aggregate::new::<T>()
Aggregate_new(T) == T

\* Caller-supplied validators: each reports one diagnostic of its own.
CustomValidators == {"X", "Y"}

\* ------------------------------------------------------------------------
\* Maps
\* ------------------------------------------------------------------------

EmptyMap == [k \in {} |-> None]
contains_key(m, k) == k \in DOMAIN m
\* BTreeMap::insert: binds k to v, replacing an earlier binding.
insert(m, k, v) == [x \in DOMAIN m \cup {k} |-> IF x = k THEN v ELSE m[x]]
\* BTreeMap::remove: the map without k.
remove(m, k) == [x \in DOMAIN m \ {k} |-> m[x]]
Keys(m) == SelectSeq(KeyOrder, LAMBDA k : k \in DOMAIN m)

\* ------------------------------------------------------------------------
\* Candidates
\* ------------------------------------------------------------------------

\* GroupCandidate::new(type_aggregate)
GroupCandidate_new(type_aggregate) == [aggregate |-> type_aggregate]

\* DefinitionCandidate::new(value, args, collection_id).  obj is the identity
\* of the candidate object: every call constructs a new one, which the maps
\* then own and move, never copy.
DefinitionCandidate_new(value, args, collection_id, obj) ==
    [metafactory |-> value, arg_sources |-> args,
     collection_id |-> collection_id, obj |-> obj]

\* ------------------------------------------------------------------------
\* Registry operations, as functions of the registry value
\* ------------------------------------------------------------------------

\* push_validator putting the new validator first.
push_validator_front(reg, validator) ==
    [reg EXCEPT !.validators = <<validator>> \o @]

push_validator(reg, validator) ==
    [reg EXCEPT !.validators = Append(@, validator)]

DefaultValidators ==
    <<"ArgumentCountValidator", "NoOverridesValidator", "DependencyValidator">>

\* Registry::new leaving out the argument-count validator.
new_without_argument_count ==
    [maybe_groups |-> EmptyMap, maybe_definitions |-> EmptyMap,
     overriden_definitions |-> EmptyMap,
     validators |-> <<"NoOverridesValidator", "DependencyValidator">>]

\* Registry::new leaving out the dependency validator.
new_without_dependencies ==
    [maybe_groups |-> EmptyMap, maybe_definitions |-> EmptyMap,
     overriden_definitions |-> EmptyMap,
     validators |-> <<"ArgumentCountValidator", "NoOverridesValidator">>]

new ==
    LET registry0 == [maybe_groups |-> EmptyMap,
                      maybe_definitions |-> EmptyMap,
                      overriden_definitions |-> EmptyMap,
                      validators |-> <<>>]
    IN push_validator(
         push_validator(
           push_validator(registry0, DefaultValidators[1]),
           DefaultValidators[2]),
         DefaultValidators[3])

\* define_group_if_not_exists without its contains_key test.
define_group_always(reg, collection_id, type_aggregate) ==
    [reg EXCEPT !.maybe_groups =
        insert(@, collection_id, GroupCandidate_new(type_aggregate))]

\* define_group_if_not_exists also evicting the definition of the same id.
define_group_evicts_definition(reg, collection_id, type_aggregate) ==
    [reg EXCEPT !.maybe_groups =
                    IF ~contains_key(@, collection_id)
                    THEN insert(@, collection_id,
                                GroupCandidate_new(type_aggregate))
                    ELSE @,
                !.maybe_definitions = remove(@, collection_id)]

define_group_if_not_exists(reg, collection_id, type_aggregate) ==
    IF ~contains_key(reg.maybe_groups, collection_id)
    THEN [reg EXCEPT !.maybe_groups =
              insert(@, collection_id, GroupCandidate_new(type_aggregate))]
    ELSE reg

has_many(reg, collection_id, T) ==
    define_group_if_not_exists(reg, collection_id, Aggregate_new(T))

\* finalize with both Entry arms setting a fresh vector: an id's earlier
\* log is lost when it is overridden again.
finalize_resets_log(reg, collection_id, id, value, args, obj) ==
    LET candidate == DefinitionCandidate_new(value, args, collection_id, obj)
    IN [reg EXCEPT
          !.maybe_definitions = insert(@, id, candidate),
          !.overriden_definitions =
             IF contains_key(reg.maybe_definitions, id)
             THEN insert(@, id, <<reg.maybe_definitions[id]>>)
             ELSE @]

\* finalize pushing the incoming candidate, not the displaced one, to the log.
finalize_logs_incoming(reg, collection_id, id, value, args, obj) ==
    LET candidate == DefinitionCandidate_new(value, args, collection_id, obj)
    IN [reg EXCEPT
          !.maybe_definitions = insert(@, id, candidate),
          !.overriden_definitions =
             IF contains_key(reg.maybe_definitions, id)
             THEN IF contains_key(@, id)
                  THEN [@ EXCEPT ![id] = Append(@, candidate)]
                  ELSE insert(@, id, <<candidate>>)
             ELSE @]

\* finalize checking the argument count and refusing a mismatch.
finalize_checks_arity(reg, collection_id, id, value, args, obj) ==
    LET candidate == DefinitionCandidate_new(value, args, collection_id, obj)
    IN IF Len(args) # RequiredArgs(value)
       THEN reg
       ELSE [reg EXCEPT
               !.maybe_definitions = insert(@, id, candidate),
               !.overriden_definitions =
                  IF contains_key(reg.maybe_definitions, id)
                  THEN IF contains_key(@, id)
                       THEN [@ EXCEPT
                               ![id] = Append(@, reg.maybe_definitions[id])]
                       ELSE insert(@, id, <<reg.maybe_definitions[id]>>)
                  ELSE @]

\* finalize putting the displaced candidate at the head of the override log.
finalize_prepends_displaced(reg, collection_id, id, value, args, obj) ==
    [reg EXCEPT
       !.maybe_definitions =
           insert(@, id,
                  DefinitionCandidate_new(value, args, collection_id, obj)),
       !.overriden_definitions =
           IF contains_key(reg.maybe_definitions, id)
           THEN insert(@, id,
                       <<reg.maybe_definitions[id]>>
                         \o (IF contains_key(@, id) THEN @[id] ELSE <<>>))
           ELSE @]

\* finalize replacing the live candidate without logging the displaced one.
finalize_drops_displaced(reg, collection_id, id, value, args, obj) ==
    [reg EXCEPT !.maybe_definitions =
        insert(@, id, DefinitionCandidate_new(value, args, collection_id, obj))]

finalize(reg, collection_id, id, value, args, obj) ==
    LET removed == IF contains_key(reg.maybe_definitions, id)
                   THEN <<reg.maybe_definitions[id]>> ELSE <<>>
        definitions1 == remove(reg.maybe_definitions, id)
        overriden1 ==
            IF removed # <<>>
            THEN IF ~contains_key(reg.overriden_definitions, id)
                 THEN insert(reg.overriden_definitions, id, <<removed[1]>>)
                 ELSE [reg.overriden_definitions EXCEPT
                          ![id] = Append(@, removed[1])]
            ELSE reg.overriden_definitions
        candidate == DefinitionCandidate_new(value, args, collection_id, obj)
    IN [reg EXCEPT !.maybe_definitions = insert(definitions1, id, candidate),
                   !.overriden_definitions = overriden1]

\* insert_one filing the candidate under a group.
insert_one_into_group(reg, id, value, obj) ==
    finalize(reg, "g", id, value, <<>>, obj)

insert_one(reg, id, value, obj) ==
    finalize(reg, None, id, value, <<>>, obj)

insert_with_args_one(reg, id, arg_sources, value, obj) ==
    finalize(reg, None, id, value, arg_sources, obj)

insert_with_arg_one(reg, id, arg_source, value, obj) ==
    finalize(reg, None, id, value, <<arg_source>>, obj)

insert_one_of(reg, collection_id, id, value, obj) ==
    finalize(reg, collection_id, id, value, <<>>, obj)

insert_with_args_one_of(reg, collection_id, id, arg_sources, value, obj) ==
    finalize(reg, collection_id, id, value, arg_sources, obj)

insert_with_arg_one_of(reg, collection_id, id, arg_source, value, obj) ==
    finalize(reg, collection_id, id, value, <<arg_source>>, obj)

\* Registry::one_of: declares the group, then hands out a OneOf builder that
\* borrows the registry.
OneOf_new(collection_id, id, value) ==
    [kind |-> "OneOf", collection_id |-> collection_id, id |-> id,
     value |-> value, arg_sources |-> <<>>]

one_of(reg, collection_id, id, value) ==
    [registry |-> define_group_if_not_exists(reg, collection_id,
                                             new_aggregate(value)),
     builder |-> OneOf_new(collection_id, id, value)]

\* Registry::one: hands out a One builder that borrows the registry.
One_new(id, value) ==
    [kind |-> "One", collection_id |-> None, id |-> id,
     value |-> value, arg_sources |-> <<>>]

one(reg, id, value) ==
    [registry |-> reg, builder |-> One_new(id, value)]

\* One / OneOf: a "with argument" call appends one identifier.
with_arg(b, arg_source) ==
    [b EXCEPT !.arg_sources = Append(@, arg_source)]

\* One / OneOf: the terminal call performs the single finalize.
builder_insert(reg, b, obj) ==
    finalize(reg, b.collection_id, b.id, b.value, b.arg_sources, obj)

\* ------------------------------------------------------------------------
\* Validators and compile
\* ------------------------------------------------------------------------

RECURSIVE Concat(_)
Concat(ss) == IF ss = <<>> THEN <<>> ELSE Head(ss) \o Concat(Tail(ss))

\* ArgumentCountValidator: one diagnostic per definition whose number of
\* argument sources differs from the factory's required number.
ArgumentCountValidator(reg) ==
    LET ids == Keys(reg.maybe_definitions)
    IN Concat([i \in 1..Len(ids) |->
         LET c == reg.maybe_definitions[ids[i]]
         IN IF Len(c.arg_sources) # RequiredArgs(c.metafactory)
            THEN <<[kind |-> "ArityMismatch", id |-> ids[i],
                    supplied |-> Len(c.arg_sources),
                    required |-> RequiredArgs(c.metafactory)]>>
            ELSE <<>>])

\* NoOverridesValidator: one diagnostic per id of the override log.
NoOverridesValidator(reg) ==
    LET ids == Keys(reg.overriden_definitions)
    IN Concat([i \in 1..Len(ids) |->
         <<[kind |-> "SilentOverride", id |-> ids[i],
            count |-> Len(reg.overriden_definitions[ids[i]])]>>])

\* DependencyValidator: one diagnostic per argument source that names
\* neither a definition nor a group.
DependencyValidator(reg) ==
    LET ids == Keys(reg.maybe_definitions)
    IN Concat([i \in 1..Len(ids) |->
         LET args == reg.maybe_definitions[ids[i]].arg_sources
         IN Concat([j \in 1..Len(args) |->
              IF ~contains_key(reg.maybe_definitions, args[j])
                 /\ ~contains_key(reg.maybe_groups, args[j])
              THEN <<[kind |-> "UnresolvedDependency", id |-> ids[i],
                      missing |-> args[j]]>>
              ELSE <<>>])])

\* A caller-supplied validator.
CustomValidator(name, reg) == <<[kind |-> "Custom", validator |-> name]>>

\* Validator::validate(registry, &mut error_summary): appends to the shared
\* collector.
validate(validator, reg, error_summary) ==
    error_summary \o
      CASE validator = "ArgumentCountValidator" -> ArgumentCountValidator(reg)
        [] validator = "NoOverridesValidator" -> NoOverridesValidator(reg)
        [] validator = "DependencyValidator" -> DependencyValidator(reg)
        [] OTHER -> CustomValidator(validator, reg)

\* for validator in self.validators.iter() { validator.validate(..) }
RECURSIVE run_validators(_, _, _)
run_validators(validators, reg, error_summary) ==
    IF validators = <<>> THEN error_summary
    ELSE run_validators(Tail(validators), reg,
                        validate(Head(validators), reg, error_summary))

Container_new(factory_map) == [factory_map |-> factory_map]

\* compile returning at the first validator that reports anything.
compile_first_failure(reg) ==
    LET failing == SelectSeq(reg.validators,
                             LAMBDA v : validate(v, reg, <<>>) # <<>>)
    IN [registry |-> reg,
        result |-> IF failing = <<>>
                   THEN [tag |-> "Ok", container |-> Container_new(EmptyMap)]
                   ELSE [tag |-> "Err",
                         errors |-> validate(failing[1], reg, <<>>)]]

\* compile taking the override log out of the registry as it reports it.
compile_drains_log(reg) ==
    LET error_summary == run_validators(reg.validators, reg, <<>>)
    IN [registry |-> [reg EXCEPT !.overriden_definitions = EmptyMap],
        result |-> IF Len(error_summary) = 0
                   THEN [tag |-> "Ok", container |-> Container_new(EmptyMap)]
                   ELSE [tag |-> "Err", errors |-> error_summary]]

\* compile reporting every definition that takes itself as an argument.
compile_rejects_cycles(reg) ==
    LET error_summary ==
          run_validators(reg.validators, reg, <<>>)
            \o Concat([i \in 1..Len(KeyOrder) |->
                  IF /\ contains_key(reg.maybe_definitions, KeyOrder[i])
                     /\ \E j \in 1..Len(reg.maybe_definitions[KeyOrder[i]]
                                            .arg_sources) :
                          reg.maybe_definitions[KeyOrder[i]].arg_sources[j]
                            = KeyOrder[i]
                  THEN <<[kind |-> "Cycle", id |-> KeyOrder[i]]>>
                  ELSE <<>>])
    IN [registry |-> reg,
        result |-> IF Len(error_summary) = 0
                   THEN [tag |-> "Ok", container |-> Container_new(EmptyMap)]
                   ELSE [tag |-> "Err", errors |-> error_summary]]

\* compile reporting every group that no live definition belongs to.
compile_rejects_empty_groups(reg) ==
    LET error_summary ==
          run_validators(reg.validators, reg, <<>>)
            \o Concat([i \in 1..Len(KeyOrder) |->
                  IF /\ contains_key(reg.maybe_groups, KeyOrder[i])
                     /\ \A id \in DOMAIN reg.maybe_definitions :
                          reg.maybe_definitions[id].collection_id
                            # KeyOrder[i]
                  THEN <<[kind |-> "EmptyGroup", id |-> KeyOrder[i]]>>
                  ELSE <<>>])
    IN [registry |-> reg,
        result |-> IF Len(error_summary) = 0
                   THEN [tag |-> "Ok", container |-> Container_new(EmptyMap)]
                   ELSE [tag |-> "Err", errors |-> error_summary]]

\* Registry::compile(&self): the registry it leaves and the value it returns.
compile(reg) ==
    LET error_summary == run_validators(reg.validators, reg, <<>>)
        factory_map == EmptyMap
    IN [registry |-> reg,
        result |-> IF Len(error_summary) = 0
                   THEN [tag |-> "Ok", container |-> Container_new(factory_map)]
                   ELSE [tag |-> "Err", errors |-> error_summary]]

\* ------------------------------------------------------------------------
\* State
\* ------------------------------------------------------------------------

VARIABLES
    registry,   \* the Registry value
    allocated,  \* number of DefinitionCandidate objects constructed so far
    builder,    \* the live One / OneOf builder borrowing the registry, if any
    before,     \* the registry as it was when that builder was requested
    result,     \* what the latest call returned, when that call was compile
    hist,       \* per id, the candidates registered under it, oldest first
    declared,   \* per group id, the aggregate its first declaration supplied
    ended       \* the builder that the latest call ended, and how it ended

vars == <<registry, allocated, builder, before, result, hist, declared, ended>>

Init ==
    /\ registry = new
    /\ allocated = 0
    /\ builder = NoBuilder
    /\ before = NoBefore
    /\ result = NoResult
    /\ hist = [id \in DefIds |-> <<>>]
    /\ declared = EmptyMap
    /\ ended = NoEnded

\* Bookkeeping of a call of define_group_if_not_exists.
Declared(collection_id, type_aggregate) ==
    declared' = IF contains_key(declared, collection_id)
                THEN declared
                ELSE insert(declared, collection_id, type_aggregate)

\* The single-argument calls take the arguments of the one-element lists.
ArgSources == {l[1] : l \in {x \in ArgLists : Len(x) = 1}}

\* Bookkeeping common to every call that registers a definition.
Registered(reg, collection_id, id, value, args) ==
    /\ registry' = reg
    /\ allocated' = allocated + 1
    /\ hist' = [hist EXCEPT ![id] = Append(@,
                  DefinitionCandidate_new(value, args, collection_id,
                                          allocated + 1))]
    /\ result' = NoResult

HasMany ==
    /\ builder = NoBuilder
    /\ \E collection_id \in GroupIds, T \in Types :
         /\ registry' = has_many(registry, collection_id, T)
         /\ Declared(collection_id, Aggregate_new(T))
    /\ result' = NoResult
    /\ ended' = NoEnded
    /\ UNCHANGED <<allocated, builder, before, hist>>

InsertOne(limit) ==
    /\ builder = NoBuilder
    /\ allocated < limit
    /\ \E id \in DefIds, value \in Factories :
         Registered(insert_one(registry, id, value, allocated + 1),
                    None, id, value, <<>>)
    /\ ended' = NoEnded
    /\ UNCHANGED <<builder, before, declared>>

InsertWithArgsOne(limit) ==
    /\ builder = NoBuilder
    /\ allocated < limit
    /\ \E id \in DefIds, value \in Factories, arg_sources \in ArgLists :
         Registered(insert_with_args_one(registry, id, arg_sources, value,
                                         allocated + 1),
                    None, id, value, arg_sources)
    /\ ended' = NoEnded
    /\ UNCHANGED <<builder, before, declared>>

InsertWithArgOne(limit) ==
    /\ builder = NoBuilder
    /\ allocated < limit
    /\ \E id \in DefIds, value \in Factories, arg_source \in ArgSources :
         Registered(insert_with_arg_one(registry, id, arg_source, value,
                                        allocated + 1),
                    None, id, value, <<arg_source>>)
    /\ ended' = NoEnded
    /\ UNCHANGED <<builder, before, declared>>

InsertOneOf(limit) ==
    /\ builder = NoBuilder
    /\ allocated < limit
    /\ \E collection_id \in GroupIds, id \in DefIds, value \in Factories :
         Registered(insert_one_of(registry, collection_id, id, value,
                                  allocated + 1),
                    collection_id, id, value, <<>>)
    /\ ended' = NoEnded
    /\ UNCHANGED <<builder, before, declared>>

InsertWithArgsOneOf(limit) ==
    /\ builder = NoBuilder
    /\ allocated < limit
    /\ \E collection_id \in GroupIds, id \in DefIds, value \in Factories,
          arg_sources \in ArgLists :
         Registered(insert_with_args_one_of(registry, collection_id, id,
                                            arg_sources, value, allocated + 1),
                    collection_id, id, value, arg_sources)
    /\ ended' = NoEnded
    /\ UNCHANGED <<builder, before, declared>>

InsertWithArgOneOf(limit) ==
    /\ builder = NoBuilder
    /\ allocated < limit
    /\ \E collection_id \in GroupIds, id \in DefIds, value \in Factories,
          arg_source \in ArgSources :
         Registered(insert_with_arg_one_of(registry, collection_id, id,
                                           arg_source, value, allocated + 1),
                    collection_id, id, value, <<arg_source>>)
    /\ ended' = NoEnded
    /\ UNCHANGED <<builder, before, declared>>

\* registry.one(id, value)
One(limit) ==
    /\ builder = NoBuilder
    /\ allocated < limit
    /\ \E id \in DefIds, value \in Factories :
         LET r == one(registry, id, value)
         IN /\ registry' = r.registry
            /\ builder' = r.builder
    /\ before' = registry
    /\ result' = NoResult
    /\ ended' = NoEnded
    /\ UNCHANGED <<allocated, hist, declared>>

\* registry.one_of(collection_id, id, value)
OneOf(limit) ==
    /\ builder = NoBuilder
    /\ allocated < limit
    /\ \E collection_id \in GroupIds, id \in DefIds, value \in Factories :
         LET r == one_of(registry, collection_id, id, value)
         IN /\ registry' = r.registry
            /\ builder' = r.builder
            /\ Declared(collection_id, new_aggregate(value))
    /\ before' = registry
    /\ result' = NoResult
    /\ ended' = NoEnded
    /\ UNCHANGED <<allocated, hist>>

\* builder.with_arg(arg_source)
WithArg ==
    /\ builder # NoBuilder
    /\ \E arg_source \in DefIds \cup GroupIds :
         /\ Append(builder.arg_sources, arg_source) \in ArgLists
         /\ builder' = with_arg(builder, arg_source)
    /\ UNCHANGED <<registry, allocated, before, result, hist, declared, ended>>

\* The builder's terminal call; the borrow ends.
BuilderInsert ==
    /\ builder # NoBuilder
    /\ Registered(builder_insert(registry, builder, allocated + 1),
                  builder.collection_id, builder.id, builder.value,
                  builder.arg_sources)
    /\ builder' = NoBuilder
    /\ before' = NoBefore
    /\ ended' = [how |-> "insert", builder |-> builder, before |-> before]
    /\ UNCHANGED declared

\* The builder goes out of scope without its terminal call.
BuilderDrop ==
    /\ builder # NoBuilder
    /\ builder' = NoBuilder
    /\ before' = NoBefore
    /\ ended' = [how |-> "drop", builder |-> builder, before |-> before]
    /\ UNCHANGED <<registry, allocated, result, hist, declared>>

PushValidator ==
    /\ builder = NoBuilder
    /\ Len(registry.validators) < Len(DefaultValidators) + MaxPush
    /\ \E validator \in CustomValidators :
         registry' = push_validator(registry, validator)
    /\ result' = NoResult
    /\ ended' = NoEnded
    /\ UNCHANGED <<allocated, builder, before, hist, declared>>

Compile ==
    /\ builder = NoBuilder
    /\ LET r == compile(registry)
       IN /\ registry' = r.registry
          /\ result' = r.result
    /\ ended' = NoEnded
    /\ UNCHANGED <<allocated, builder, before, hist, declared>>

\* The six direct insertions.
Insertion(limit) ==
    \/ InsertOne(limit)
    \/ InsertWithArgsOne(limit)
    \/ InsertWithArgOne(limit)
    \/ InsertOneOf(limit)
    \/ InsertWithArgsOneOf(limit)
    \/ InsertWithArgOneOf(limit)

\* Every operation that declares or registers.
Registration(limit) ==
    \/ HasMany
    \/ Insertion(limit)
    \/ One(limit)
    \/ OneOf(limit)
    \/ WithArg
    \/ BuilderInsert
    \/ BuilderDrop

\* Every registration operation.
Next == Registration(MaxRegs)
Spec == Init /\ [][Next]_vars

\* The direct insertions alone, with room for longer override logs.
NextInsert == Insertion(MaxInserts)
SpecInsert == Init /\ [][NextInsert]_vars

\* Group declarations, insertions and compile under the default validators.
NextCompile == HasMany \/ Insertion(MaxCompileRegs) \/ Compile
SpecCompile == Init /\ [][NextCompile]_vars

\* Insertions and compile, with room for registrations after an override.
NextInsertCompile == Insertion(MaxInserts) \/ Compile
SpecInsertCompile == Init /\ [][NextInsertCompile]_vars

\* Group declarations and argument-less insertions, with and without a
\* group, with room for logs of two candidates.
NextGrow == HasMany \/ InsertOne(MaxInserts) \/ InsertOneOf(MaxInserts)
SpecGrow == Init /\ [][NextGrow]_vars

\* Insertions, caller-supplied validators and compile.
NextPipeline == Insertion(MaxPipelineRegs) \/ PushValidator \/ Compile
SpecPipeline == Init /\ [][NextPipeline]_vars

\* ------------------------------------------------------------------------
\* Properties
\* ------------------------------------------------------------------------

Range(seq) == {seq[i] : i \in 1..Len(seq)}
Front(seq) == SubSeq(seq, 1, Len(seq) - 1)
Last(seq) == seq[Len(seq)]

\* C1: after any sequence of registrations, every id is bound in the live
\* definitions to the candidate of its last registration, and its override
\* log holds all its earlier candidates, oldest first, none dropped (an id
\* registered once has no log entry, an id never registered no binding).
C1_LastWinsLogKeepsEarlier ==
    \A id \in DefIds :
      IF hist[id] = <<>>
      THEN /\ ~contains_key(registry.maybe_definitions, id)
           /\ ~contains_key(registry.overriden_definitions, id)
      ELSE /\ contains_key(registry.maybe_definitions, id)
           /\ registry.maybe_definitions[id] = Last(hist[id])
           /\ IF Len(hist[id]) = 1
              THEN ~contains_key(registry.overriden_definitions, id)
              ELSE /\ contains_key(registry.overriden_definitions, id)
                   /\ registry.overriden_definitions[id] = Front(hist[id])

\* "a" registered with F1, then F3, then F1 again: two logged predecessors.
C1_Witness ==
    /\ Len(hist["a"]) = 3
    /\ hist["a"][1].metafactory = "F1"
    /\ hist["a"][2].metafactory = "F3"
    /\ registry.maybe_definitions["a"].metafactory = "F1"
    /\ Len(registry.overriden_definitions["a"]) = 2

\* C2: an id is a key of the override log only with a non-empty sequence of
\* displaced candidates, and the live candidate of an id is never one of the
\* candidates of that id's log.
C2_LogOnlyDisplaced ==
    \A id \in DOMAIN registry.overriden_definitions :
      /\ Len(registry.overriden_definitions[id]) >= 1
      /\ contains_key(registry.maybe_definitions, id)
      /\ registry.maybe_definitions[id]
           \notin Range(registry.overriden_definitions[id])
      /\ \A c \in Range(registry.overriden_definitions[id]) :
           c.obj # registry.maybe_definitions[id].obj

\* An id re-registered with the very same factory, arguments and group: the
\* logged and the live candidate differ only in being two objects.
C2_Witness ==
    /\ contains_key(registry.overriden_definitions, "a")
    /\ LET old == registry.overriden_definitions["a"][1]
           cur == registry.maybe_definitions["a"]
       IN /\ old.metafactory = cur.metafactory
          /\ old.arg_sources = cur.arg_sources
          /\ old.collection_id = cur.collection_id

\* C3: every registration of a definition as a member of a group leaves that
\* group in the groups map (created if it was not there, left as it was if it
\* was) and the definition bound to a candidate owned by that group.
C3_MemberRegistrationDeclaresGroup ==
    [][\A id \in DefIds :
         (hist'[id] # hist[id] /\ Last(hist'[id]).collection_id # None) =>
           LET collection_id == Last(hist'[id]).collection_id
           IN /\ contains_key(registry'.maybe_groups, collection_id)
              /\ registry'.maybe_definitions[id].collection_id = collection_id
              /\ contains_key(registry.maybe_groups, collection_id) =>
                   registry'.maybe_groups[collection_id]
                     = registry.maybe_groups[collection_id]]_vars

\* C4: a builder dropped without its terminal call leaves the registry as it
\* was before the builder was requested.
C4_DroppedBuilderLeavesRegistry ==
    ended.how = "drop" => registry = ended.before

\* C5: a builder's terminal call leaves the registry that the direct
\* insertion with the same ids, factory and argument list would have made of
\* the registry the builder was requested from, and registers exactly once.
C5_BuilderEqualsDirectInsertion ==
    ended.how = "insert" =>
      LET b == ended.builder
      IN /\ registry =
              IF b.kind = "One"
              THEN insert_with_args_one(ended.before, b.id, b.arg_sources,
                                        b.value, allocated)
              ELSE insert_with_args_one_of(ended.before, b.collection_id,
                                           b.id, b.arg_sources, b.value,
                                           allocated)
         /\ Last(hist[b.id]) = registry.maybe_definitions[b.id]
         /\ Last(hist[b.id]).obj = allocated

\* C6: the groups map holds exactly the group ids that were declared, each
\* with the aggregate of its first declaration: a later declaration of a
\* known id, whatever aggregate it brings, changes nothing.
C6_FirstDeclarationStays ==
    /\ DOMAIN registry.maybe_groups = DOMAIN declared
    /\ \A collection_id \in DOMAIN declared :
         registry.maybe_groups[collection_id]
           = GroupCandidate_new(declared[collection_id])

\* one_of has just declared, with another aggregate, a group that an earlier
\* declaration created.
C6_Witness ==
    /\ builder # NoBuilder
    /\ builder.kind = "OneOf"
    /\ contains_key(before.maybe_groups, builder.collection_id)
    /\ declared[builder.collection_id] # new_aggregate(builder.value)

\* What each validator of the pipeline reports on reg, on its own.
Reports(reg) ==
    [i \in 1..Len(reg.validators) |-> validate(reg.validators[i], reg, <<>>)]

\* C7: compile returns a Container exactly when no validator of the pipeline
\* reports anything, and otherwise returns, without a Container, the reports
\* of all the validators, concatenated.
C7_AllOrNothing ==
    result # NoResult =>
      IF \A i \in 1..Len(registry.validators) : Reports(registry)[i] = <<>>
      THEN result = [tag |-> "Ok", container |-> [factory_map |-> EmptyMap]]
      ELSE result = [tag |-> "Err", errors |-> Concat(Reports(registry))]

\* compile of a registry whose one problem is a wrong argument count.
C7_Witness ==
    /\ result.tag = "Err"
    /\ Len(result.errors) = 1
    /\ result.errors[1].kind = "ArityMismatch"

\* C8: a call of compile leaves the registry (maps and validators) as it was,
\* and a compile that follows a compile returns what the first returned.
C8_CompileIsPure ==
    [][result' # NoResult =>
         /\ registry' = registry
         /\ result # NoResult => result' = result]_vars

\* compile has reported on a registry whose override log is not empty.
C8_Witness ==
    /\ result.tag = "Err"
    /\ registry.overriden_definitions # EmptyMap

\* C9: the pipeline always starts with argument-count, no-overrides,
\* dependency-existence, followed by caller-supplied validators only; the
\* pipeline changes only by one validator being appended at its end; and
\* compile reports the defaults' diagnostics in that order, followed by the
\* caller-supplied validators' diagnostics in push order.
C9_PipelineOrder ==
    /\ [](LET validators == registry.validators
              pushed == SubSeq(validators, 4, Len(validators))
              expected ==
                 ArgumentCountValidator(registry)
                 \o NoOverridesValidator(registry)
                 \o DependencyValidator(registry)
                 \o Concat([i \in 1..Len(pushed) |->
                              CustomValidator(pushed[i], registry)])
          IN /\ Len(validators) >= 3
             /\ SubSeq(validators, 1, 3) =
                  <<"ArgumentCountValidator", "NoOverridesValidator",
                    "DependencyValidator">>
             /\ Range(pushed) \subseteq CustomValidators
             /\ result # NoResult =>
                  IF expected = <<>> THEN result.tag = "Ok"
                  ELSE result.tag = "Err" /\ result.errors = expected)
    /\ [][registry'.validators # registry.validators =>
            \E validator \in CustomValidators :
              registry'.validators = Append(registry.validators, validator)]_vars

\* compile after X and then Y were pushed, on a registry with a wrong
\* argument count: the defaults' diagnostic first, then X's, then Y's.
C9_Witness ==
    /\ registry.validators =
         <<"ArgumentCountValidator", "NoOverridesValidator",
           "DependencyValidator", "X", "Y">>
    /\ result.tag = "Err"
    /\ Len(result.errors) = 3
    /\ result.errors[1].kind = "ArityMismatch"
    /\ result.errors[2] = [kind |-> "Custom", validator |-> "X"]
    /\ result.errors[3] = [kind |-> "Custom", validator |-> "Y"]

\* C10: in every state, every registration - whatever its argument count,
\* whether its arguments name known ids, whether its id is already bound -
\* goes through and binds the id to the new candidate, and every candidate
\* that was registered last under an id is the live one.
C10_RegistrationAlwaysInstalls ==
    /\ \A collection_id \in GroupIds \cup {None}, id \in DefIds,
          value \in Factories, arg_sources \in ArgLists :
         LET reg1 ==
               IF collection_id = None
               THEN insert_with_args_one(registry, id, arg_sources, value,
                                         allocated + 1)
               ELSE insert_with_args_one_of(registry, collection_id, id,
                                            arg_sources, value, allocated + 1)
         IN /\ contains_key(reg1.maybe_definitions, id)
            /\ reg1.maybe_definitions[id] =
                 [metafactory |-> value, arg_sources |-> arg_sources,
                  collection_id |-> collection_id, obj |-> allocated + 1]
            /\ reg1.validators = registry.validators
    /\ \A id \in DefIds :
         hist[id] # <<>> =>
           /\ contains_key(registry.maybe_definitions, id)
           /\ registry.maybe_definitions[id] = Last(hist[id])

\* Registrations with a wrong argument count, an unknown argument and an id
\* already bound all went through; the later compile reports all three.
C10_Witness ==
    /\ result.tag = "Err"
    /\ {e.kind : e \in Range(result.errors)} =
         {"ArityMismatch", "SilentOverride", "UnresolvedDependency"}

\* The diagnostics the latest compile returned, and those of one kind.
Diagnostics == IF result.tag = "Err" THEN result.errors ELSE <<>>
OfKind(kind) == SelectSeq(Diagnostics, LAMBDA e : e.kind = kind)

\* The live definitions whose argument count is not the factory's.
Mismatched ==
    {id \in DOMAIN registry.maybe_definitions :
       Len(registry.maybe_definitions[id].arg_sources)
         # RequiredArgs(registry.maybe_definitions[id].metafactory)}

\* The argument positions of live definitions that name no definition and
\* no group.
Unresolved ==
    {p \in UNION {{<<id, j>> :
                     j \in 1..Len(registry.maybe_definitions[id].arg_sources)} :
                   id \in DOMAIN registry.maybe_definitions} :
       LET ref == registry.maybe_definitions[p[1]].arg_sources[p[2]]
       IN /\ ~contains_key(registry.maybe_definitions, ref)
          /\ ~contains_key(registry.maybe_groups, ref)}

\* C11: under the default validators compile returns exactly one arity
\* diagnostic for each live definition whose number of argument sources is
\* not its factory's required number, carrying the id and both counts, and
\* none for any other definition.
C11_OneArityDiagnosticPerMismatch ==
    result # NoResult =>
      /\ Len(OfKind("ArityMismatch")) = Cardinality(Mismatched)
      /\ Range(OfKind("ArityMismatch")) =
           {[kind |-> "ArityMismatch", id |-> id,
             supplied |-> Len(registry.maybe_definitions[id].arg_sources),
             required |->
               RequiredArgs(registry.maybe_definitions[id].metafactory)] :
              id \in Mismatched}

\* "a" has one argument on a factory requiring three, "b" has the count its
\* factory requires: one arity diagnostic, for "a", with counts 1 and 3.
C11_Witness ==
    /\ DOMAIN registry.maybe_definitions = {"a", "b"}
    /\ Mismatched = {"a"}
    /\ OfKind("ArityMismatch") =
         <<[kind |-> "ArityMismatch", id |-> "a", supplied |-> 1,
            required |-> 3]>>

\* C12: under the default validators compile returns exactly one override
\* diagnostic per id of the override log, carrying the id and the number of
\* its displaced candidates; so once an id was registered more than once,
\* every compile fails, whatever was registered afterwards.
C12_OneOverrideDiagnosticPerId ==
    result # NoResult =>
      /\ Len(OfKind("SilentOverride"))
           = Cardinality(DOMAIN registry.overriden_definitions)
      /\ Range(OfKind("SilentOverride")) =
           {[kind |-> "SilentOverride", id |-> id,
             count |-> Len(registry.overriden_definitions[id])] :
              id \in DOMAIN registry.overriden_definitions}
      /\ (\E id \in DefIds : Len(hist[id]) > 1) => result.tag = "Err"

\* "a" was registered twice, then "b" was registered, then compile ran.
C12_Witness ==
    /\ Len(hist["a"]) = 2
    /\ Len(hist["b"]) = 1
    /\ hist["b"][1].obj = 3
    /\ result.tag = "Err"
    /\ [kind |-> "SilentOverride", id |-> "a", count |-> 1]
         \in Range(result.errors)

\* C13: under the default validators compile returns exactly one
\* unresolved-dependency diagnostic for each argument source of a live
\* definition that names neither a live definition nor a group, carrying the
\* definition's id and the missing reference, and none for any other
\* argument source; with nothing unresolved, no wrong count and no override,
\* compile succeeds.
C13_OneDiagnosticPerUnresolved ==
    result # NoResult =>
      /\ Len(OfKind("UnresolvedDependency")) = Cardinality(Unresolved)
      /\ Range(OfKind("UnresolvedDependency")) =
           {[kind |-> "UnresolvedDependency", id |-> p[1],
             missing |-> registry.maybe_definitions[p[1]].arg_sources[p[2]]] :
              p \in Unresolved}
      /\ (/\ Unresolved = {}
          /\ Mismatched = {}
          /\ registry.overriden_definitions = EmptyMap) => result.tag = "Ok"

\* "b" takes "a", which is neither registered nor declared: compile fails
\* with the one diagnostic naming "b" and "a".
C13_Witness ==
    /\ result =
         [tag |-> "Err",
          errors |-> <<[kind |-> "UnresolvedDependency", id |-> "b",
                        missing |-> "a"]>>]
    /\ ~contains_key(registry.maybe_definitions, "a")
    /\ ~contains_key(registry.maybe_groups, "a")

\* The same "b", compiled after "a" was declared as a group only.
C13_ResolvedByGroup ==
    /\ result.tag = "Ok"
    /\ contains_key(registry.maybe_definitions, "b")
    /\ registry.maybe_definitions["b"].arg_sources = <<"a">>
    /\ ~contains_key(registry.maybe_definitions, "a")
    /\ contains_key(registry.maybe_groups, "a")

\* The same "b", compiled after "a" was registered as a definition only.
C13_ResolvedByDefinition ==
    /\ result.tag = "Ok"
    /\ contains_key(registry.maybe_definitions, "b")
    /\ registry.maybe_definitions["b"].arg_sources = <<"a">>
    /\ contains_key(registry.maybe_definitions, "a")
    /\ ~contains_key(registry.maybe_groups, "a")

\* The ids whose registration in this step named no group.
GrouplessStep ==
    {id \in DefIds : /\ Len(hist'[id]) = Len(hist[id]) + 1
                     /\ Last(hist'[id]).collection_id = None}

\* The live candidate and the override log of an id, None and <<>> when the
\* maps have no such key.
Live(reg, id) ==
    IF contains_key(reg.maybe_definitions, id)
    THEN reg.maybe_definitions[id] ELSE None
Log(reg, id) ==
    IF contains_key(reg.overriden_definitions, id)
    THEN reg.overriden_definitions[id] ELSE <<>>

\* C14: a registration that names no group installs a candidate without an
\* owning group and changes only the entries of its own id: the groups map
\* stays as it was, and every other id keeps its live candidate and its
\* override log.
C14_GrouplessTouchesOnlyItsId ==
    [][\A id \in GrouplessStep :
          /\ registry'.maybe_groups = registry.maybe_groups
          /\ Live(registry', id) = Last(hist'[id])
          /\ Live(registry', id).collection_id = None
          /\ \A other \in DefIds \ {id} :
               /\ Live(registry', other) = Live(registry, other)
               /\ Log(registry', other) = Log(registry, other)]_vars

\* A group is declared and "b" is live as a member of a group; then "a" was
\* registered last, by a direct insertion naming no group.
C14_Witness ==
    /\ registry.maybe_groups # EmptyMap
    /\ Len(hist["b"]) = 1
    /\ hist["b"][1].collection_id # None
    /\ Live(registry, "b") = hist["b"][1]
    /\ Len(hist["a"]) = 1
    /\ hist["a"][1].obj = allocated
    /\ hist["a"][1].obj > hist["b"][1].obj
    /\ Live(registry, "a").collection_id = None
    /\ ended = NoEnded

\* The live definitions that name themselves among their argument sources.
SelfReferring ==
    {id \in DOMAIN registry.maybe_definitions :
       id \in Range(registry.maybe_definitions[id].arg_sources)}

\* C15: a definition taking itself as an argument, with the argument count
\* its factory requires and never overridden, draws no diagnostic; a
\* registry whose only peculiarity is such a cycle compiles successfully.
C15_SelfCycleNotReported ==
    result # NoResult =>
      /\ \A id \in SelfReferring :
           (/\ id \notin Mismatched
            /\ ~contains_key(registry.overriden_definitions, id)
            /\ \A p \in Unresolved : p[1] # id)
           => \A e \in Range(Diagnostics) : e.id # id
      /\ (/\ SelfReferring # {}
          /\ Mismatched = {}
          /\ registry.overriden_definitions = EmptyMap
          /\ Unresolved = {}) => result.tag = "Ok"

\* "a" is registered once, on a one-argument factory, with itself as the
\* argument, and compile returned a Container.
C15_Witness ==
    /\ SelfReferring = {"a"}
    /\ DOMAIN registry.maybe_definitions = {"a"}
    /\ RequiredArgs(registry.maybe_definitions["a"].metafactory) = 1
    /\ registry.maybe_groups = EmptyMap
    /\ result.tag = "Ok"

\* The groups no live definition belongs to.
MemberlessGroups ==
    {collection_id \in DOMAIN registry.maybe_groups :
       \A id \in DOMAIN registry.maybe_definitions :
         registry.maybe_definitions[id].collection_id # collection_id}

\* C16: declaring a group brings no diagnostic: if compile succeeds on the
\* registry, it succeeds on the registry after a has_many call, however many
\* such calls are made.
C16_DeclarationsKeepCompileClean ==
    [][(/\ registry'.maybe_groups # registry.maybe_groups
        /\ hist' = hist
        /\ compile(registry).result.tag = "Ok")
       => compile(registry').result.tag = "Ok"]_vars

\* Two groups are declared, no definition belongs to either, a definition
\* is registered, and compile returned a Container.
C16_Witness ==
    /\ MemberlessGroups = GroupIds
    /\ registry.maybe_definitions # EmptyMap
    /\ result.tag = "Ok"

\* C17: definition ids and group ids are separate namespaces: a group
\* declaration changes no definition and no override log; a registration
\* naming no group changes no group; and when an id is both a definition and
\* a group, compile reports only wrong argument counts, overrides and
\* unresolved dependencies, nothing for the shared name.
C17_SeparateNamespaces ==
    /\ [][/\ registry'.maybe_groups # registry.maybe_groups
             => /\ registry'.maybe_definitions = registry.maybe_definitions
                /\ registry'.overriden_definitions
                     = registry.overriden_definitions
          /\ GrouplessStep # {}
             => registry'.maybe_groups = registry.maybe_groups]_vars
    /\ []((/\ result # NoResult
           /\ DOMAIN registry.maybe_definitions
                \cap DOMAIN registry.maybe_groups # {})
          => Len(Diagnostics) = Cardinality(Mismatched)
                                  + Cardinality(DOMAIN
                                      registry.overriden_definitions)
                                  + Cardinality(Unresolved))

\* "a" is a definition registered without a group and also a declared
\* group, and compile returned a Container.
C17_Witness ==
    /\ contains_key(registry.maybe_definitions, "a")
    /\ registry.maybe_definitions["a"].collection_id = None
    /\ contains_key(registry.maybe_groups, "a")
    /\ result.tag = "Ok"

\* C18: the owning group of every live candidate is a key of the groups
\* map.
C18_OwningGroupIsDeclared ==
    \A id \in DOMAIN registry.maybe_definitions :
      registry.maybe_definitions[id].collection_id # None
        => contains_key(registry.maybe_groups,
                        registry.maybe_definitions[id].collection_id)

\* C19: the registry only grows: the key sets of the groups, of the live
\* definitions and of the override log never lose an element, every log
\* changes only by gaining entries at its tail, every key of the log is a
\* live definition id, and an id was registered once more than its log is
\* long.
C19_RegistryOnlyGrows ==
    /\ [][/\ DOMAIN registry.maybe_groups \subseteq DOMAIN registry'.maybe_groups
          /\ DOMAIN registry.maybe_definitions
               \subseteq DOMAIN registry'.maybe_definitions
          /\ DOMAIN registry.overriden_definitions
               \subseteq DOMAIN registry'.overriden_definitions
          /\ \A id \in DefIds :
               /\ Len(Log(registry', id)) >= Len(Log(registry, id))
               /\ SubSeq(Log(registry', id), 1, Len(Log(registry, id)))
                    = Log(registry, id)]_vars
    /\ [](/\ DOMAIN registry.overriden_definitions
               \subseteq DOMAIN registry.maybe_definitions
          /\ \A id \in DOMAIN registry.maybe_definitions :
               Len(hist[id]) = Len(Log(registry, id)) + 1
          /\ \A id \in DefIds \ DOMAIN registry.maybe_definitions :
               Len(hist[id]) = 0)

\* "a" was registered three times, its log holds the two displaced
\* candidates, and a group is declared.
C19_Witness ==
    /\ Len(hist["a"]) = 3
    /\ Len(Log(registry, "a")) = 2
    /\ registry.maybe_groups # EmptyMap

\* C20: membership follows the last registration: when an id registered
\* into a group is registered again without a group or into another group,
\* its live candidate has the owning group of the new registration, the
\* displaced candidate in the log keeps the earlier group, and the groups
\* map still contains the earlier group.
C20_MembershipFollowsLastRegistration ==
    \A id \in DefIds :
      (/\ Len(hist[id]) >= 2
       /\ hist[id][Len(hist[id]) - 1].collection_id # None
       /\ Last(hist[id]).collection_id
            # hist[id][Len(hist[id]) - 1].collection_id)
      => /\ Live(registry, id).collection_id = Last(hist[id]).collection_id
         /\ Last(Log(registry, id)).collection_id
              = hist[id][Len(hist[id]) - 1].collection_id
         /\ contains_key(registry.maybe_groups,
                         hist[id][Len(hist[id]) - 1].collection_id)

====
